---- MODULE Spec2Model ----
(***************************************************************************)
(* A model of ipydeps (src/ipydeps/ipydeps.py): the pip() entry point and  *)
(* the module-level helpers it is built from.                              *)
(*                                                                         *)
(* Every function of the module is one action: the action's effect on the  *)
(* environment (installed distributions, temporary files) and the trace of *)
(* what the call did (subprocesses, network fetches, log records) are      *)
(* computed by operators that follow the function's statements in order;   *)
(* a log record's argument is a tuple that starts with its message.        *)
(* A computation is a record [exc, val, events, ...]: exc is "none" when   *)
(* the function returned val, otherwise the Python exception that left it. *)
(*                                                                         *)
(* Text is a sequence of one-character strings, so that the regular        *)
(* expression, str.lower() and ' '.join() are computed and not assumed.    *)
(***************************************************************************)
EXTENDS Integers, Sequences, FiniteSets, TLC

VARIABLES
    site,         \* distributions on disk: what `pip freeze --all` lists
    working_set,  \* pkg_resources.working_set: the in-process registry
    files,        \* temporary credential files that exist on disk
    cfg,          \* the configuration directory: [configs_path, pip_configs, requires_pki]
    remote,       \* what config.dependencies_link serves: [status, doc]
    fn,           \* the function of the last call ("none" before any call)
    args,         \* its arguments
    events,       \* what the call did, in order
    result,       \* what it returned (None when it raised)
    exc           \* "none", or the exception that propagated out of it

vars == <<site, working_set, files, cfg, remote, fn, args, events, result, exc>>

env_vars == <<site, working_set, files, cfg, remote>>

None == "None"

Range(s) == {s[i] : i \in DOMAIN s}

\* A computation that returned v / that raised e, having done evs.
Ret(v, evs) == [exc |-> "none", val |-> v, events |-> evs]

Raise(e, evs) == [exc |-> e, val |-> None, events |-> evs]

Ev(kind, arg) == [kind |-> kind, arg |-> arg]

(***************************************************************************)
(* Text                                                                    *)
(***************************************************************************)
UpperLetters ==
    <<"A","B","C","D","E","F","G","H","I","J","K","L","M",
      "N","O","P","Q","R","S","T","U","V","W","X","Y","Z">>

LowerLetters ==
    <<"a","b","c","d","e","f","g","h","i","j","k","l","m",
      "n","o","p","q","r","s","t","u","v","w","x","y","z">>

Digits == {"0","1","2","3","4","5","6","7","8","9"}

IsUpper(c) == \E i \in DOMAIN UpperLetters : UpperLetters[i] = c

IsLetter(c) == IsUpper(c) \/ \E i \in DOMAIN LowerLetters : LowerLetters[i] = c

IsDigit(c) == c \in Digits

\* a name character: letter, digit, "_" or "-"
IsNameChar(c) == IsLetter(c) \/ IsDigit(c) \/ c \in {"_", "-"}

LowerChar(c) ==
    IF IsUpper(c)
    THEN LowerLetters[CHOOSE i \in DOMAIN UpperLetters : UpperLetters[i] = c]
    ELSE c

\* str.lower()
Lower(s) == [i \in DOMAIN s |-> LowerChar(s[i])]

RECURSIVE JoinFrom(_, _)
JoinFrom(xs, i) ==
    IF i > Len(xs) THEN <<>>
    ELSE IF i = Len(xs) THEN xs[i]
    ELSE xs[i] \o <<" ">> \o JoinFrom(xs, i + 1)

\* ' '.join(xs)
Join(xs) == JoinFrom(xs, 1)

RECURSIVE Strip(_)
\* str.strip(), for the blank
Strip(s) ==
    IF s = <<>> THEN s
    ELSE IF Head(s) = " " THEN Strip(Tail(s))
    ELSE IF s[Len(s)] = " " THEN Strip(SubSeq(s, 1, Len(s) - 1))
    ELSE s

(***************************************************************************)
(* package_name_pattern, as re.findall applies it: leftmost match, greedy  *)
(* repetition, the version group optional, matches never overlapping.      *)
(*   NAME ( CMP NUM "." NUM ( "." NUM )... )?   with NAME a letter and   *)
(*   one or more of letter, digit, "_", "-"; CMP one of < > <= >= ==;      *)
(*   NUM one or more digits.                                               *)
(* The operators return the index of the last character matched, 0 for no  *)
(* match.                                                                  *)
(***************************************************************************)
RECURSIVE NameRunEnd(_, _)
\* zero or more name characters, greedy, after position i
NameRunEnd(s, i) ==
    IF i + 1 <= Len(s) /\ IsNameChar(s[i + 1]) THEN NameRunEnd(s, i + 1) ELSE i

RECURSIVE DigitRunEnd(_, _)
\* zero or more digits, greedy, after position i
DigitRunEnd(s, i) ==
    IF i + 1 <= Len(s) /\ IsDigit(s[i + 1]) THEN DigitRunEnd(s, i + 1) ELSE i

RECURSIVE MoreVersionEnd(_, _)
\* zero or more of "." NUM, greedy, after position i
MoreVersionEnd(s, i) ==
    IF i + 1 <= Len(s) /\ s[i + 1] = "." /\ DigitRunEnd(s, i + 1) > i + 1
    THEN MoreVersionEnd(s, DigitRunEnd(s, i + 1))
    ELSE i

\* NUM "." NUM and zero or more of "." NUM, after position i
NumberEnd(s, i) ==
    LET d1 == DigitRunEnd(s, i)
        d2 == DigitRunEnd(s, d1 + 1)
    IN  IF d1 > i /\ d1 + 1 <= Len(s) /\ s[d1 + 1] = "." /\ d2 > d1 + 1
        THEN MoreVersionEnd(s, d2)
        ELSE 0

Comparators == << <<"<">>, <<">">>, <<"<", "=">>, <<">", "=">>, <<"=", "=">> >>

StartsWithAt(s, i, w) ==
    /\ i + Len(w) <= Len(s)
    /\ \A k \in DOMAIN w : s[i + k] = w[k]

\* CMP and the number after position i: the first
\* alternative, in the pattern's order, after which the number matches
VersionEnd(s, i) ==
    LET ok == {a \in DOMAIN Comparators :
                   /\ StartsWithAt(s, i, Comparators[a])
                   /\ NumberEnd(s, i + Len(Comparators[a])) > 0}
    IN  IF ok = {} THEN 0
        ELSE LET a == CHOOSE x \in ok : \A y \in ok : x <= y
             IN  NumberEnd(s, i + Len(Comparators[a]))

\* the whole pattern, matched at position i
MatchEnd(s, i) ==
    IF i + 1 <= Len(s) /\ IsLetter(s[i]) /\ IsNameChar(s[i + 1])
    THEN LET e == NameRunEnd(s, i + 1)
             v == VersionEnd(s, e)
         IN  IF v > 0 THEN v ELSE e
    ELSE 0

RECURSIVE FindAll(_, _)
FindAll(s, i) ==
    IF i > Len(s) THEN <<>>
    ELSE LET e == MatchEnd(s, i)
         IN  IF e > 0 THEN <<SubSeq(s, i, e)>> \o FindAll(s, e + 1)
             ELSE FindAll(s, i + 1)

\* valid_pkg_names(s): group 0 of every match
valid_pkg_names(s) == FindAll(s, 1)

\* get_pkg_names(x), x a str or a list of str
get_pkg_names(x) ==
    LET s        == IF x.type = "list" THEN Join(x.val) ELSE x.val
        found    == valid_pkg_names(s)
        packages == [i \in DOMAIN found |-> Strip(found[i])]
    IN  {p \in Range(packages) : Len(p) > 0}

(***************************************************************************)
(* A Python dict is a sequence of <<key, value>> pairs with distinct keys,  *)
(* in insertion order: iteration follows the sequence, assignment to a key *)
(* already present keeps its place.                                        *)
(***************************************************************************)
DictHas(d, k) == \E i \in DOMAIN d : d[i][1] = k

DictGet(d, k) == d[CHOOSE i \in DOMAIN d : d[i][1] = k][2]

DictSet(d, k, v) ==
    IF DictHas(d, k)
    THEN [i \in DOMAIN d |-> IF d[i][1] = k THEN <<k, v>> ELSE d[i]]
    ELSE Append(d, <<k, v>>)

DictKeys(d) == {d[i][1] : i \in DOMAIN d}

\* the orders in which iteration can visit a set
Orders(S) == {o \in [1..Cardinality(S) -> S] : Range(o) = S}

(***************************************************************************)
(* Names and the interpreter                                               *)
(***************************************************************************)
numpy == <<"n","u","m","p","y">>

NumPy == <<"N","u","m","P","y">>

scipy == <<"s","c","i","p","y">>

os == <<"o","s">>

\* sys.version_info of the interpreter the model runs on
version_info == [major |-> 3, minor |-> 11, micro |-> 4]

py_name_micro == <<"python", version_info.major, version_info.minor, version_info.micro>>

py_name_minor == <<"python", version_info.major, version_info.minor>>

py_name_major == <<"python", version_info.major>>

(***************************************************************************)
(* The override document                                                   *)
(***************************************************************************)
RECURSIVE LowercasePackages(_, _, _, _)
\* the inner loop of case_insensitive_dependencies_json over packages[i..]
LowercasePackages(packages, i, lowercased, evs) ==
    IF i > Len(packages) THEN Ret(lowercased, evs)
    ELSE LET pkg == Lower(packages[i][1])
         IN  IF ~DictHas(packages, pkg)
             THEN Raise("KeyError", evs)           \* cmds = packages[pkg]
             ELSE LET cmds == DictGet(packages, pkg)
                      warn == IF DictHas(lowercased, pkg)
                              THEN <<Ev("log.warning", <<"Duplicate package name", pkg>>)>>
                              ELSE <<>>
                  IN  LowercasePackages(packages, i + 1,
                                        DictSet(lowercased, pkg, cmds), evs \o warn)

RECURSIVE LowercaseVersions(_, _, _, _)
\* the outer loop over dep_json[i..]
LowercaseVersions(dep_json, i, lowercased, evs) ==
    IF i > Len(dep_json) THEN Ret(lowercased, evs)
    ELSE LET version == dep_json[i][1]
             inner   == LowercasePackages(dep_json[i][2], 1, <<>>, evs)
         IN  IF inner.exc # "none" THEN inner
             ELSE LowercaseVersions(dep_json, i + 1,
                                    DictSet(lowercased, version, inner.val),
                                    inner.events)

case_insensitive_dependencies_json(dep_json) ==
    LowercaseVersions(dep_json, 1, <<>>, <<>>)

\* load_config(configs_path): the part of the configuration the module reads
load_config(c) ==
    [dependencies_link              |-> "dependencies_link",
     dependencies_link_requires_pki |-> c.requires_pki]

\* get_dependencies_link_urlopener(config), as the events opening the link makes
get_dependencies_link_urlopener(config) ==
    IF config.dependencies_link_requires_pki
    THEN <<Ev("ssl_context", None), Ev("urlopen", config.dependencies_link)>>
    ELSE <<Ev("urlopen", config.dependencies_link)>>

\* read_dependencies_json(config), the link serving rem
read_dependencies_json(config, rem) ==
    LET opened == get_dependencies_link_urlopener(config)
    IN  CASE rem.status = "HTTPError" ->
               Ret(<<>>, opened \o <<Ev("log.error", <<"HTTPError">>)>>)
          [] rem.status = "URLError" ->
               Raise("URLError", opened)
          [] rem.status = "bad_utf8" ->
               Raise("UnicodeDecodeError", opened)
          [] rem.status = "bad_json" ->
               Ret(<<>>, opened \o <<Ev("log.error", <<"JSONDecodeError">>)>>)
          [] OTHER ->
               LET c == case_insensitive_dependencies_json(rem.doc)
               IN  [c EXCEPT !.events = opened \o @]

RECURSIVE OverridePass(_, _, _, _)
\* for pkg in packages: if pkg in dep_json[tag]: overrides[pkg] = dep_json[tag][pkg]
OverridePass(order, i, tagged, overrides) ==
    IF i > Len(order) THEN overrides
    ELSE OverridePass(order, i + 1, tagged,
                      IF DictHas(tagged, order[i])
                      THEN DictSet(overrides, order[i], DictGet(tagged, order[i]))
                      ELSE overrides)

\* one of the three checks of find_overrides
OverrideCheck(order, tag, dep_json, overrides) ==
    IF DictHas(dep_json, tag)
    THEN OverridePass(order, 1, DictGet(dep_json, tag), overrides)
    ELSE overrides

\* the three checks from the most specific tag to the least
OverrideTags_reversed == <<py_name_micro, py_name_minor, py_name_major>>

\* the order of the three checks
OverrideTags == <<py_name_major, py_name_minor, py_name_micro>>

\* find_overrides(packages, config); order is the order iteration visits packages in
find_overrides(order, config, rem) ==
    IF Len(order) = 0 THEN Ret(<<>>, <<>>)
    ELSE LET read == read_dependencies_json(config, rem)
         IN  IF read.exc # "none" THEN read
             ELSE LET dep_json == read.val
                      o1 == OverrideCheck(order, OverrideTags[1], dep_json, <<>>)
                      o2 == OverrideCheck(order, OverrideTags[2], dep_json, o1)
                      o3 == OverrideCheck(order, OverrideTags[3], dep_json, o2)
                  IN  Ret(o3, read.events)

(***************************************************************************)
(* Subprocesses.  subprocess.check_output ends in one of three ways: the   *)
(* command exits 0 ("zero"), it exits non-zero and CalledProcessError is   *)
(* raised, or it cannot be started and OSError is raised ("oserror").  The *)
(* bytes a command that exited non-zero wrote to stderr are UTF-8          *)
(* ("nonzero") or are not ("nonzero_undecodable").                         *)
(***************************************************************************)
SubprocessOutcomes == {"zero", "nonzero", "nonzero_undecodable", "oserror"}

pip_run_args == <<"python", "-m", "pip">>

\* run_get_stderr(cmd, env), the subprocess ending as out while fs are on disk;
\* the event records the command, its environment, the files and the ending
run_get_stderr(cmd, env, out, fs) ==
    LET ran == <<Ev("subprocess", [cmd |-> cmd, env |-> env, files |-> fs, out |-> out])>>
    IN  CASE out = "zero"    -> Ret(<<0, None>>, ran)
          [] out = "nonzero" -> Ret(<<1, <<"stderr">>>>, ran)   \* except CalledProcessError
          [] out = "nonzero_undecodable" ->
               Raise("UnicodeDecodeError", ran)              \* str(e.stderr, encoding='utf8')
          [] OTHER           -> Raise("OSError", ran)        \* no handler

\* run_and_log_error(cmd)
run_and_log_error(cmd, out, fs) ==
    LET r == run_get_stderr(cmd, <<"environ">>, out, fs)
    IN  IF r.exc # "none" THEN r
        ELSE IF r.val[1] # 0 /\ r.val[2] # None
        THEN Ret(None, r.events \o <<Ev("log.error", r.val[2])>>)
        ELSE Ret(None, r.events)

RECURSIVE RunCommands(_, _, _, _, _, _)
\* for command in cmds[j..]; k commands have been run so far, outs[k+1] is how
\* the next one ends
RunCommands(cmds, j, k, outs, fs, evs) ==
    IF j > Len(cmds) THEN [exc |-> "none", events |-> evs, ran |-> k]
    ELSE IF Len(cmds[j]) > 0
    THEN LET r == run_and_log_error(cmds[j], outs[k + 1], fs)
             e == evs \o <<Ev("log.debug", cmds[j])>> \o r.events
         IN  IF r.exc # "none" THEN [exc |-> r.exc, events |-> e, ran |-> k + 1]
             ELSE RunCommands(cmds, j + 1, k + 1, outs, fs, e)
    ELSE RunCommands(cmds, j + 1, k, outs, fs, evs)

RECURSIVE RunOverridesFrom(_, _, _, _, _, _)
\* for name, cmds in overrides.items(), from the i-th item
RunOverridesFrom(overrides, i, k, outs, fs, evs) ==
    IF i > Len(overrides) THEN [exc |-> "none", events |-> evs, ran |-> k]
    ELSE LET name == overrides[i][1]
             r == RunCommands(overrides[i][2], 1, k, outs, fs,
                              evs \o <<Ev("log.info", <<"Executing overrides for", name>>)>>)
         IN  IF r.exc # "none" THEN r
             ELSE RunOverridesFrom(overrides, i + 1, r.ran, outs, fs, r.events)

\* run_overrides(overrides)
run_overrides(overrides, outs, fs) ==
    LET r == RunOverridesFrom(overrides, 1, 0, outs, fs, <<>>)
    IN  [exc |-> r.exc, val |-> None, events |-> r.events]

\* the non-empty commands of an override table, in the order run_overrides meets them
RECURSIVE CommandsOf(_)
CommandsOf(overrides) ==
    IF overrides = <<>> THEN <<>>
    ELSE SelectSeq(Head(overrides)[2], LAMBDA c : Len(c) > 0) \o CommandsOf(Tail(overrides))

(***************************************************************************)
(* run_pip.  A with statement removes what its context manager created     *)
(* when the block is left, by return or by exception.                      *)
(***************************************************************************)
KeyCertFiles == {"key", "cert"}

CombinedFile == {"combined"}

\* a cleanup that runs only when the block returns
WithExit_on_return(fs, paths, e) == IF e = "none" THEN fs \ paths ELSE fs

\* __exit__ of a context manager that created paths, the block having ended
\* with exception e ("none": it returned)
WithExit(fs, paths, e) == fs \ paths

\* the name a requirement installs: the text before a version comparator
DistName(p) ==
    LET cut == {i \in DOMAIN p : p[i] \in {"<", ">", "="}}
    IN  IF cut = {} THEN p
        ELSE SubSeq(p, 1, (CHOOSE i \in cut : \A j \in cut : i <= j) - 1)

\* how a call of run_pip can end: as its subprocess does, or, with use_pki, in
\* pki_loader.ca_path() or combine_key_and_cert() raising before it starts
PipOutcomes(use_pki) ==
    IF use_pki THEN SubprocessOutcomes \cup {"ca_path_error", "combine_error"}
    ELSE SubprocessOutcomes

\* run_pip(packages, use_pki, verbose, pip_config_path), ending as out, with fs on
\* disk before the call: the computation, and the files left on disk after it
run_pip(packages, use_pki, verbose, pip_config_path, out, fs) ==
    LET args0 == IF verbose THEN <<"install", "-vvv">> ELSE <<"install">>
        env   == IF pip_config_path # None
                 THEN <<"environ", "PIP_CONFIG_FILE", pip_config_path>>
                 ELSE <<"environ">>
    IN  IF use_pki
        THEN LET fs1   == fs \cup KeyCertFiles      \* with NamedTemporaryKeyCertPaths()
                 made1 == <<Ev("mktemp", KeyCertFiles)>>
                 fs2   == fs1 \cup CombinedFile     \* with TemporaryPathContext()
                 made2 == made1 \o <<Ev("ca_path", None), Ev("mktemp", CombinedFile)>>
                 body  ==
                     IF out = "ca_path_error"
                     THEN [c |-> Raise("PKIError", made1), inner |-> FALSE]
                     ELSE IF out = "combine_error"
                     THEN [c |-> Raise("OSError", made2), inner |-> TRUE]
                     ELSE LET argv == args0 \o <<"--client-cert=combined", "--cert=ca_path">>
                              r == run_get_stderr(pip_run_args \o argv \o packages,
                                                  env, out, fs2)
                          IN  [c |-> [r EXCEPT !.events = made2 \o @], inner |-> TRUE]
                 fs3   == IF body.inner THEN WithExit(fs2, CombinedFile, body.c.exc)
                          ELSE fs1
                 fs4   == WithExit(fs3, KeyCertFiles, body.c.exc)
                 gone  == (IF body.inner THEN <<Ev("exit", fs2 \ fs3)>> ELSE <<>>)
                          \o <<Ev("exit", fs3 \ fs4)>>
             IN  [exc    |-> body.c.exc,
                  val    |-> body.c.val,
                  events |-> body.c.events \o gone,
                  files  |-> fs4]
        ELSE LET r == run_get_stderr(pip_run_args \o args0 \o packages, env, out, fs)
             IN  [exc |-> r.exc, val |-> r.val, events |-> r.events, files |-> fs]

(***************************************************************************)
(* Names.  A name a function reads is looked up in the function's local    *)
(* variables, then in the module's globals; a name bound in neither raises *)
(* NameError when the statement runs.                                      *)
(***************************************************************************)
\* a module that also binds `packages` at its top level
ModuleGlobals_with_packages ==
    [package_name_pattern |-> "package_name_pattern", pip_run_args |-> pip_run_args,
     packages |-> {scipy}]

\* the module-level variables: the imports and functions aside, these two
ModuleGlobals ==
    [package_name_pattern |-> "package_name_pattern", pip_run_args |-> pip_run_args]

Lookup(name, locals) ==
    IF name \in DOMAIN locals THEN Ret(locals[name], <<>>)
    ELSE IF name \in DOMAIN ModuleGlobals THEN Ret(ModuleGlobals[name], <<>>)
    ELSE Raise("NameError", <<>>)

(***************************************************************************)
(* The installed set and the requested set                                 *)
(***************************************************************************)
\* pip_freeze_packages(): the names of the `name==version` lines of pip freeze
pip_freeze_packages(s) == s

\* currently_installed(): the event carries the set it returned
currently_installed(s, ws) ==
    LET pr == ws
        pf == pip_freeze_packages(s)
        installed == {Lower(p) : p \in pr \cup pf}
    IN  Ret(installed, <<Ev("currently_installed", installed)>>)

\* subtract_installed(already_installed, requested)
subtract_installed(already_installed, requested) ==
    LET locals == [already_installed  |-> already_installed,
                   requested          |-> requested,
                   requested_packages |-> {Lower(p) : p \in requested}]
        packages == Lookup("packages", locals)
    IN  IF packages.exc # "none" THEN packages
        ELSE Ret(packages.val \ already_installed, <<>>)

\* utils.normalize_package_names(packages)
normalize_package_names(packages) == {Lower(p) : p \in packages}

\* utils.stdlib_packages()
stdlib_packages == {os, <<"s","y","s">>, <<"j","s","o","n">>}

RECURSIVE SomeOrder(_)
\* a set as a sequence, for iteration whose order nothing reads
SomeOrder(S) ==
    IF S = {} THEN <<>>
    ELSE LET x == CHOOSE y \in S : TRUE IN <<x>> \o SomeOrder(S \ {x})

\* subtract_stdlib(packages)
subtract_stdlib(packages) ==
    LET stdlib == stdlib_packages
        hit    == SomeOrder(packages \cap stdlib)
    IN  Ret(packages \ stdlib,
            [i \in DOMAIN hit |-> Ev("log.warning", <<"standard library", hit[i]>>)])

\* log_currently_installed(before, requested)
log_currently_installed(before, requested) ==
    LET already_installed == before \cap requested
    IN  IF Cardinality(already_installed) > 0
        THEN <<Ev("log.info", <<"Packages currently installed", already_installed>>)>>
        ELSE <<>>

\* log_before_after(before, after)
log_before_after(before, after) ==
    LET new_packages == after \ before
    IN  IF Cardinality(new_packages) = 0
        THEN <<Ev("log.warning", <<"No new packages installed">>)>>
        ELSE <<Ev("log.info", <<"New packages installed", new_packages>>)>>

\* refresh_available_packages(): the registry rescans sys.path
refresh_available_packages(s, ws) == ws \cup s

(***************************************************************************)
(* The pip configuration                                                   *)
(***************************************************************************)
\* config.config_dir(environ)
config_dir(c) == c.configs_path

\* find_pip_config_path(config_name, configs_path)
find_pip_config_path(config_name, configs_path) ==
    IF configs_path = None THEN Ret(None, <<>>)
    ELSE IF config_name = None THEN Raise("TypeError", <<>>)   \* Path / None
    ELSE Ret(<<configs_path, config_name>>, <<>>)

\* pip_config_found(config_name, pip_config_path), c.pip_configs the files that exist
pip_config_found(config_name, pip_config_path, c) ==
    IF config_name = None THEN Ret(TRUE, <<>>)
    ELSE IF pip_config_path = None THEN Raise("AttributeError", <<>>)   \* None.exists()
    ELSE IF pip_config_path[2] \in c.pip_configs THEN Ret(TRUE, <<>>)
    ELSE Ret(FALSE, <<Ev("log.error", <<"Could not find pip config", config_name>>)>>)

(***************************************************************************)
(* pip(), statement by statement.  Each operator takes what the statements *)
(* before it computed and returns where the call stands after it: stage    *)
(* "running" (more follows), "returned" or "raised", with the events so    *)
(* far and the environment as the call has left it.  Between the parts the *)
(* environment answers: how iteration orders a set, how each subprocess    *)
(* ends, what it installs.                                                 *)
(***************************************************************************)
Stand(stage, e, evs, s, ws, fs, more) ==
    [stage |-> stage, exc |-> e, events |-> evs,
     site |-> s, working_set |-> ws, files |-> fs, locals |-> more]

\* line 291: requested_packages = subtract_installed(packages_before_install, ...)
PipWanted(c, s, ws, fs, pip_config_path, evs, before, wanted) ==
    IF wanted.exc # "none"
    THEN Stand("raised", wanted.exc, evs, s, ws, fs, <<>>)
    ELSE Stand("running", "none", evs, s, ws, fs,
               [ipydeps_config          |-> load_config(c),
                pip_config_path         |-> pip_config_path,
                packages_before_install |-> before,
                requested_packages      |-> wanted.val])

\* lines 290-291
PipRequested(c, s, ws, fs, pip_config_path, evs, before, kept) ==
    PipWanted(c, s, ws, fs, pip_config_path,
              evs \o before.events \o kept.events
                  \o log_currently_installed(before.val, kept.val),
              before.val,
              subtract_installed(before.val, kept.val))

\* lines 280-287
PipChecked(a, c, s, ws, fs, pip_config_path, found) ==
    IF found.exc # "none"
    THEN Stand("raised", found.exc, found.events, s, ws, fs, <<>>)
    ELSE IF ~found.val
    THEN Stand("returned", "none", found.events, s, ws, fs, <<>>)
    ELSE PipRequested(c, s, ws, fs, pip_config_path, found.events,
                      currently_installed(s, ws),
                      subtract_stdlib(normalize_package_names(
                          get_pkg_names(a.requested_packages))))

\* lines 278-280
PipConfigured(a, c, s, ws, fs, pip_config_path) ==
    IF pip_config_path.exc # "none"
    THEN Stand("raised", pip_config_path.exc, <<>>, s, ws, fs, <<>>)
    ELSE PipChecked(a, c, s, ws, fs, pip_config_path.val,
                    pip_config_found(a.config, pip_config_path.val, c))

\* lines 276-291: the config check, the installed set, the requested set
PipHead(a, c, s, ws, fs) ==
    PipConfigured(a, c, s, ws, fs, find_pip_config_path(a.config, config_dir(c)))

\* lines 293-294, first half: find_overrides, when overrides are used
PipFind(a, h, order, rem) ==
    IF a.use_overrides
    THEN find_overrides(order, h.locals.ipydeps_config, rem)
    ELSE Ret(<<>>, <<>>)

\* line 298: packages_to_install = list(subtract_installed(currently_installed(), ...))
PipLeft(h, evs, s1, ws1, now, left) ==
    IF left.exc # "none"
    THEN Stand("raised", left.exc, evs \o now.events, s1, ws1, h.files, <<>>)
    ELSE Stand("running", "none", evs \o now.events, s1, ws1, h.files,
               [pip_config_path         |-> h.locals.pip_config_path,
                packages_before_install |-> h.locals.packages_before_install,
                requested_packages      |-> h.locals.requested_packages,
                packages_to_install     |-> left.val])

\* lines 297-298
PipRefreshed(h, evs, s1, ws1, now) ==
    PipLeft(h, evs, s1, ws1, now,
            subtract_installed(now.val, h.locals.requested_packages))

\* lines 294-298, the overrides having run as ran and left s1 on disk
PipRan(h, found, ran, s1) ==
    IF ran.exc # "none"
    THEN Stand("raised", ran.exc, h.events \o found.events \o ran.events,
               s1, h.working_set, h.files, <<>>)
    ELSE PipRefreshed(h, h.events \o found.events \o ran.events \o <<Ev("rescan", None)>>,
                      s1, refresh_available_packages(s1, h.working_set),
                      currently_installed(s1, refresh_available_packages(s1, h.working_set)))

\* lines 294-298: run_overrides, the refresh, what is left to install
PipMiddle(a, h, found, outs, adds) ==
    PipRan(h, found,
           IF a.use_overrides THEN run_overrides(found.val, outs, h.files)
           ELSE Ret(None, <<>>),
           h.site \cup adds)

\* lines 310-312
PipReport(before, evs, s2, ws2, fs2, after) ==
    Stand("returned", "none",
          evs \o after.events \o log_before_after(before, after.val)
              \o <<Ev("log.debug", <<"Done">>)>>,
          s2, ws2, fs2, <<>>)

\* lines 304-312, run_pip having ended as r and left s2 on disk
PipInstalled(m, evs, r, s2) ==
    IF r.exc # "none"
    THEN Stand("raised", r.exc, evs \o r.events, m.site, m.working_set, r.files, <<>>)
    ELSE PipReport(m.locals.packages_before_install,
                   evs \o r.events
                       \o (IF r.val[1] # 0 /\ r.val[2] # None
                           THEN <<Ev("log.error", r.val[2])>> ELSE <<>>)
                       \o <<Ev("invalidate_cache", None), Ev("rescan", None)>>,
                   s2, refresh_available_packages(s2, m.working_set), r.files,
                   currently_installed(s2, refresh_available_packages(s2, m.working_set)))

\* lines 300-312, packages being what the name `packages` is bound to
PipGuarded(a, m, install_order, out, packages) ==
    IF packages.exc # "none"
    THEN Stand("raised", packages.exc, m.events, m.site, m.working_set, m.files, <<>>)
    ELSE IF Cardinality(packages.val) > 0
    THEN PipInstalled(m,
                      m.events \o <<Ev("log.debug", <<"Running pip to install", packages.val>>)>>,
                      run_pip(install_order, a.use_pki, a.verbose,
                              m.locals.pip_config_path, out, m.files),
                      IF out = "zero"
                      THEN m.site \cup {DistName(p) : p \in Range(install_order)}
                      ELSE m.site)
    ELSE PipReport(m.locals.packages_before_install, m.events,
                   m.site, m.working_set, m.files,
                   currently_installed(m.site, m.working_set))

\* lines 300-312: the install, the refresh, the report
PipTail(a, m, install_order, out) ==
    PipGuarded(a, m, install_order, out, Lookup("packages", m.locals))

(***************************************************************************)
(* The environment and the inputs the model draws from                     *)
(***************************************************************************)
\* the longest command list of an override table given to run_overrides
MaxCmds == 2

\* the most packages in one call of run_pip
MaxPackages == 2

\* distributions, by the project names pip freeze prints
Dists == {NumPy, scipy}

\* what is on disk, and the part of it the registry has seen
Sites ==
    UNION {{[site |-> s, working_set |-> ws] : ws \in SUBSET s} : s \in SUBSET Dists}

\* the configuration directory: absent, or present with some pip configs in it
Cfgs ==
    {[configs_path |-> None, pip_configs |-> {}, requires_pki |-> b] : b \in BOOLEAN}
    \cup {[configs_path |-> "config_dir", pip_configs |-> ps, requires_pki |-> b] :
              ps \in SUBSET {"corp"}, b \in BOOLEAN}

DocKeys == {numpy, NumPy}

DocCmds(level, key) ==
    << <<"echo", level, IF key = numpy THEN "lower" ELSE "mixed">> >>

\* the package tables of one version tag: the keys in any order
DocTables(level) ==
    {[i \in DOMAIN o |-> <<o[i], DocCmds(level, o[i])>>] :
         o \in UNION {Orders(K) : K \in SUBSET DocKeys}}

\* a version tag is absent from the document or has one of its tables
DocPart(tag, level) == {<<>>} \cup {<< <<tag, t>> >> : t \in DocTables(level)}

Docs ==
    {a \o b \o c : a \in DocPart(py_name_major, "major"),
                   b \in DocPart(py_name_minor, "minor"),
                   c \in DocPart(py_name_micro, "micro")}

\* the documents whose package keys are all lowercase
LowercaseDocs ==
    {d \in Docs : \A i \in DOMAIN d : \A k \in DictKeys(d[i][2]) : k = Lower(k)}

FetchFailures == {"HTTPError", "URLError", "bad_utf8", "bad_json"}

\* what the link can serve: a document, or a failure
Served(docs) ==
    {[status |-> "ok", doc |-> d] : d \in docs}
    \cup {[status |-> st, doc |-> <<>>] : st \in FetchFailures}

Remotes == Served(Docs)

Text_numpy_spec == numpy \o <<">","=","1",".","2"," ">> \o os

Text_invalid ==
    <<"n","o","t"," ","a"," ","v","a","l","i","d","!","!","p","k","g">>

PipRequests ==
    {[type |-> "str",  val |-> numpy],
     [type |-> "str",  val |-> Text_numpy_spec],
     [type |-> "list", val |-> <<numpy, os, Text_invalid>>],
     [type |-> "list", val |-> <<NumPy, scipy>>],
     [type |-> "list", val |-> <<os>>]}

PipArgs ==
    [requested_packages : PipRequests, verbose : BOOLEAN, use_pki : BOOLEAN,
     use_overrides : BOOLEAN, config : {None, "corp"}]

Configs == {load_config(c) : c \in Cfgs}

OverrideNames == {numpy, scipy}

Commands == {<<>>, <<"echo", "hi">>, <<"make", "install">>}

CmdLists == UNION {[1..n -> Commands] : n \in 0..MaxCmds}

OverrideTables ==
    UNION {{[i \in DOMAIN o |-> <<o[i], c[i]>>] : c \in [DOMAIN o -> CmdLists]} :
               o \in UNION {Orders(K) : K \in SUBSET OverrideNames}}

PackageLists == UNION {[1..n -> {numpy, scipy}] : n \in 0..MaxPackages}

EnvInit(S, C, R) ==
    /\ \E e \in S : site = e.site /\ working_set = e.working_set
    /\ files = {}
    /\ cfg \in C
    /\ remote \in R
    /\ fn = "none"
    /\ args = None
    /\ events = <<>>
    /\ result = None
    /\ exc = "none"

\* the state a call leaves; a behaviour is one call in one environment
Done(f, a, c, s, ws, fs) ==
    /\ fn = "none"
    /\ fn' = f
    /\ args' = a
    /\ events' = c.events
    /\ result' = c.val
    /\ exc' = c.exc
    /\ site' = s
    /\ working_set' = ws
    /\ files' = fs
    /\ UNCHANGED <<cfg, remote>>

DoneAt(a, st) ==
    Done("pip", a, [events |-> st.events, val |-> None, exc |-> st.exc],
         st.site, st.working_set, st.files)

(***************************************************************************)
(* The calls                                                               *)
(***************************************************************************)
\* the call from line 300 on
PipFromInstall(a, m) ==
    IF m.stage # "running" THEN DoneAt(a, m)
    ELSE \E install_order \in Orders(m.locals.packages_to_install),
            out \in PipOutcomes(a.use_pki) :
             DoneAt(a, PipTail(a, m, install_order, out))

\* the call from run_overrides on
PipFromOverrides(a, h, found) ==
    IF found.exc # "none"
    THEN DoneAt(a, [h EXCEPT !.exc = found.exc, !.events = @ \o found.events])
    ELSE \E outs \in [1..Len(CommandsOf(found.val)) -> SubprocessOutcomes],
            adds \in SUBSET DictKeys(found.val) :
             PipFromInstall(a, PipMiddle(a, h, found, outs, adds))

\* the call from line 293 on
PipFromHead(a, h) ==
    IF h.stage # "running" THEN DoneAt(a, h)
    ELSE \E order \in Orders(h.locals.requested_packages) :
             PipFromOverrides(a, h, PipFind(a, h, order, remote))

pip ==
    /\ fn = "none"
    /\ \E a \in PipArgs : PipFromHead(a, PipHead(a, cfg, site, working_set, files))

Call_find_overrides ==
    /\ fn = "none"
    /\ \E packages \in SUBSET OverrideNames, config \in Configs :
        \E order \in Orders(packages) :
            Done("find_overrides", [packages |-> packages, order |-> order, config |-> config],
                 find_overrides(order, config, remote), site, working_set, files)

Call_read_dependencies_json ==
    /\ fn = "none"
    /\ \E config \in Configs :
        Done("read_dependencies_json", [config |-> config],
             read_dependencies_json(config, remote), site, working_set, files)

Call_case_insensitive_dependencies_json ==
    /\ fn = "none"
    /\ remote.status = "ok"
    /\ Done("case_insensitive_dependencies_json", [dep_json |-> remote.doc],
            case_insensitive_dependencies_json(remote.doc), site, working_set, files)

Call_run_overrides ==
    /\ fn = "none"
    /\ \E overrides \in OverrideTables :
        \E outs \in [1..Len(CommandsOf(overrides)) -> SubprocessOutcomes],
           adds \in SUBSET DictKeys(overrides) :
            Done("run_overrides", [overrides |-> overrides, outs |-> outs],
                 run_overrides(overrides, outs, files), site \cup adds, working_set, files)

Call_run_pip ==
    /\ fn = "none"
    /\ \E packages \in PackageLists, use_pki \in BOOLEAN, verbose \in BOOLEAN,
       pip_config_path \in {None, <<"config_dir", "corp">>} :
        \E out \in PipOutcomes(use_pki) :
            LET r == run_pip(packages, use_pki, verbose, pip_config_path, out, files)
            IN  Done("run_pip",
                     [packages |-> packages, use_pki |-> use_pki, verbose |-> verbose,
                      pip_config_path |-> pip_config_path, out |-> out],
                     r,
                     IF out = "zero" THEN site \cup {DistName(p) : p \in Range(packages)}
                     ELSE site,
                     working_set, r.files)

(***************************************************************************)
(* Specifications: pip() in every environment; the override document's     *)
(* functions against everything the link can serve; the two functions that *)
(* run subprocesses.                                                       *)
(***************************************************************************)
DefaultCfg == [configs_path |-> None, pip_configs |-> {}, requires_pki |-> FALSE]

NothingInstalled == {[site |-> {}, working_set |-> {}]}

\* the link serves an empty document
EmptyDocument == {[status |-> "ok", doc |-> <<>>]}

Init == EnvInit(Sites, Cfgs, Served(LowercaseDocs))

Next == pip

Spec == Init /\ [][Next]_vars

InitDeps == EnvInit(NothingInstalled, {DefaultCfg}, Remotes)

NextDeps ==
    \/ Call_find_overrides
    \/ Call_read_dependencies_json
    \/ Call_case_insensitive_dependencies_json

SpecDeps == InitDeps /\ [][NextDeps]_vars

InitRunPip == EnvInit(Sites, {DefaultCfg}, EmptyDocument)

NextRunPip == Call_run_pip

SpecRunPip == InitRunPip /\ [][NextRunPip]_vars

InitOverrides == EnvInit(NothingInstalled, {DefaultCfg}, EmptyDocument)

NextOverrides == Call_run_overrides

SpecOverrides == InitOverrides /\ [][NextOverrides]_vars

(***************************************************************************)
(* What a finished call shows                                              *)
(***************************************************************************)
Indices(kind) == {i \in DOMAIN events : events[i].kind = kind}

\* the event is a subprocess running `python -m pip install ...`
IsInstall(e) ==
    /\ e.kind = "subprocess"
    /\ Len(e.arg.cmd) >= 4
    /\ SubSeq(e.arg.cmd, 1, 4) = pip_run_args \o <<"install">>

Installs == {i \in DOMAIN events : IsInstall(events[i])}

\* the packages an install was given: what follows the options of the call
InstallPackages(a, e) ==
    LET options == 4 + (IF a.verbose THEN 1 ELSE 0) + (IF a.use_pki THEN 2 ELSE 0)
    IN  {e.arg.cmd[k] : k \in (options + 1)..Len(e.arg.cmd)}

\* an override command's subprocess
IsOverrideRun(e) == e.kind = "subprocess" /\ ~IsInstall(e)

\* the call of pip() went past the config check: line 283 computed the installed set
PassedConfigCheck ==
    /\ fn = "pip"
    /\ Len(events) > 0
    /\ events[1].kind = "currently_installed"

\* the installed set pip() computed first
InstalledBefore == events[1].arg

\* the requested names after extraction, normalization and stdlib filtering
RequestedNames ==
    subtract_stdlib(normalize_package_names(get_pkg_names(args.requested_packages))).val

\* the override the served document holds for p: the most specific tag's
TagHolds(d, tag, p) == DictHas(d, tag) /\ DictHas(DictGet(d, tag), p)

HasOverride(d, p) ==
    \E tag \in {py_name_micro, py_name_minor, py_name_major} : TagHolds(d, tag, p)

MostSpecific(d, p) ==
    IF TagHolds(d, py_name_micro, p) THEN DictGet(DictGet(d, py_name_micro), p)
    ELSE IF TagHolds(d, py_name_minor, p) THEN DictGet(DictGet(d, py_name_minor), p)
    ELSE DictGet(DictGet(d, py_name_major), p)

(***************************************************************************)
(* C1.  In every call of pip() that passes the config check and whose      *)
(* requested names (extracted, normalized, standard-library names removed) *)
(* are all in the installed set currently_installed() returned, no install *)
(* subprocess is run.                                                      *)
(***************************************************************************)
C1_NoInstallWhenAllInstalled ==
    (PassedConfigCheck /\ RequestedNames \subseteq InstalledBefore) => Installs = {}

\* a call that passed the check asking for something, all of it installed
C1_Witness ==
    /\ PassedConfigCheck
    /\ RequestedNames # {}
    /\ RequestedNames \subseteq InstalledBefore

\* the override table read_dependencies_json returns for the call
C2_Table == read_dependencies_json(args.config, remote).val

(***************************************************************************)
(* C2.  find_overrides maps every requested package p to the command list  *)
(* of the most specific version tag of the override table that holds p     *)
(* (micro, else minor, else major), and leaves p out exactly when none of  *)
(* the three tags holds it.  The override table is what                    *)
(* read_dependencies_json returned to find_overrides.                      *)
(***************************************************************************)
C2_MostSpecificWins ==
    (fn = "find_overrides" /\ exc = "none" /\ args.packages # {}) =>
        \A p \in args.packages :
            /\ DictHas(result, p) <=> HasOverride(C2_Table, p)
            /\ DictHas(result, p) => DictGet(result, p) = MostSpecific(C2_Table, p)

\* numpy is held by the major and the micro tag, with different commands
C2_Witness ==
    /\ fn = "find_overrides"
    /\ exc = "none"
    /\ numpy \in args.packages
    /\ TagHolds(C2_Table, py_name_major, numpy)
    /\ TagHolds(C2_Table, py_name_micro, numpy)
    /\ DictGet(DictGet(C2_Table, py_name_major), numpy)
           # DictGet(DictGet(C2_Table, py_name_micro), numpy)
    /\ DictGet(result, numpy) = DictGet(DictGet(C2_Table, py_name_micro), numpy)

\* the request of the end-to-end example
C3_Request == [type |-> "list", val |-> <<numpy, os, Text_invalid>>]

(***************************************************************************)
(* C3.  pip(["numpy", "os", "not a valid!!pkg"]) with numpy not installed  *)
(* and no override applying runs exactly one install subprocess, whose     *)
(* packages are exactly {numpy}, and logs one warning about os.            *)
(***************************************************************************)
C3_OneInstallOfNumpy ==
    (/\ PassedConfigCheck
     /\ args.requested_packages = C3_Request
     /\ numpy \notin InstalledBefore
     /\ (~args.use_overrides \/ remote.doc = <<>>))
    => /\ Cardinality(Installs) = 1
       /\ \A i \in Installs : InstallPackages(args, events[i]) = {numpy}
       /\ Cardinality({i \in Indices("log.warning") :
                           events[i].arg = <<"standard library", os>>}) = 1

\* the later computations of the installed set
C4_Recomputed == {i \in Indices("currently_installed") : i > 1}

(***************************************************************************)
(* C4.  In pip() with use_overrides, for every requested, not yet          *)
(* installed package p the served document has an override for: p's        *)
(* override commands run before the installed set is recomputed and before *)
(* any install; p is not given to the install when the recomputed set has  *)
(* it, and is given to an install when it has not.                         *)
(***************************************************************************)
C4_OverridesThenInstall ==
    (PassedConfigCheck /\ args.use_overrides /\ remote.status = "ok") =>
        \A p \in RequestedNames \ InstalledBefore :
            HasOverride(remote.doc, p) =>
                /\ C4_Recomputed # {}
                /\ \A c \in Range(MostSpecific(remote.doc, p)) :
                       \E i \in DOMAIN events :
                           /\ IsOverrideRun(events[i])
                           /\ events[i].arg.cmd = c
                           /\ \A j \in C4_Recomputed \cup Installs : i < j
                /\ LET first == CHOOSE j \in C4_Recomputed : \A k \in C4_Recomputed : j <= k
                   IN  IF p \in events[first].arg
                       THEN \A i \in Installs : p \notin InstallPackages(args, events[i])
                       ELSE \E i \in Installs : p \in InstallPackages(args, events[i])

\* a pip configuration is named and its file does not exist
C5_ConfigFileMissing == args.config # None /\ args.config \notin cfg.pip_configs

(***************************************************************************)
(* C5.  pip() called with a named pip configuration whose file does not    *)
(* exist logs an error and returns before any subprocess or fetch; every   *)
(* other call, config=None included, goes past the config check and        *)
(* computes the installed set.                                             *)
(***************************************************************************)
C5_OnlyMissingConfigStops ==
    fn = "pip" =>
        IF C5_ConfigFileMissing
        THEN /\ exc = "none"
             /\ Len(events) = 1
             /\ events[1].kind = "log.error"
        ELSE PassedConfigCheck

(***************************************************************************)
(* C6.  Every call of pip() that passes the config check returns without   *)
(* raising, whatever the install subprocess's exit code: a non-zero exit   *)
(* is logged as an error, and the call ends by recomputing the installed   *)
(* set and reporting the before/after difference.                          *)
(***************************************************************************)
C6_AlwaysReports ==
    PassedConfigCheck =>
        /\ exc = "none"
        /\ Len(events) >= 3
        /\ events[Len(events) - 2].kind = "currently_installed"
        /\ events[Len(events) - 1].kind \in {"log.warning", "log.info"}
        /\ \A i \in Installs :
               events[i].arg.out \in {"nonzero", "nonzero_undecodable"} =>
                   \E j \in Indices("log.error") : j > i

(***************************************************************************)
(* C7.  Whatever fails while the override document is fetched or decoded,  *)
(* read_dependencies_json logs the error and returns an empty table        *)
(* without raising.                                                        *)
(***************************************************************************)
C7_FetchFailureIsEmptyTable ==
    (fn = "read_dependencies_json" /\ remote.status \in FetchFailures) =>
        /\ exc = "none"
        /\ result = <<>>
        /\ Indices("log.error") # {}

\* the temporary files of a call with use_pki
TempFiles == KeyCertFiles \cup CombinedFile

(***************************************************************************)
(* C8.  A call of run_pip with use_pki leaves none of the temporary key,   *)
(* cert and combined files on disk, however it ends, and every one of them *)
(* was created before the install subprocess started and exists while it   *)
(* runs.                                                                   *)
(***************************************************************************)
C8_TempFilesScoped ==
    (fn = "run_pip" /\ args.use_pki) =>
        /\ files \cap TempFiles = {}
        /\ \A i \in Installs :
               /\ TempFiles \subseteq events[i].arg.files
               /\ \A f \in TempFiles :
                      \E j \in Indices("mktemp") : j < i /\ f \in events[j].arg

\* the install subprocess was started and the invocation raised
C8_Witness ==
    /\ fn = "run_pip"
    /\ args.use_pki
    /\ Installs # {}
    /\ exc = "OSError"
    /\ files = {}

\* the subprocesses the call ran, in order
C9_Ran == SelectSeq(events, LAMBDA e : e.kind = "subprocess")

(***************************************************************************)
(* C9.  run_overrides runs every non-empty command of every overridden     *)
(* package exactly once and in the listed order; a command that fails is   *)
(* logged and never raised, and the commands after it still run.           *)
(***************************************************************************)
C9_AllCommandsRun ==
    fn = "run_overrides" =>
        /\ exc = "none"
        /\ [i \in DOMAIN C9_Ran |-> C9_Ran[i].arg.cmd] = CommandsOf(args.overrides)
        /\ \A i \in Indices("subprocess") :
               events[i].arg.out # "zero" =>
                   i < Len(events) /\ events[i + 1].kind = "log.error"

\* the last entry of a package table whose key lowercases to k
C10_LastOf(packages, k) ==
    CHOOSE i \in DOMAIN packages :
        /\ Lower(packages[i][1]) = k
        /\ \A j \in DOMAIN packages : Lower(packages[j][1]) = k => j <= i

(***************************************************************************)
(* C10.  case_insensitive_dependencies_json returns a document with the    *)
(* same version tags whose package keys are the lowercase forms of the     *)
(* input's keys, each mapped to the command list of the input key it comes *)
(* from, for keys of any letter case; of keys that differ only in case the *)
(* later one's command list stays, and a warning is logged.                *)
(***************************************************************************)
C10_LowercasedKeepsCommands ==
    fn = "case_insensitive_dependencies_json" =>
        /\ exc = "none"
        /\ DictKeys(result) = DictKeys(args.dep_json)
        /\ \A tag \in DictKeys(args.dep_json) :
               LET packages == DictGet(args.dep_json, tag)
                   lowered  == DictGet(result, tag)
               IN  /\ DictKeys(lowered) = {Lower(k) : k \in DictKeys(packages)}
                   /\ \A k \in DictKeys(lowered) :
                          DictGet(lowered, k) = packages[C10_LastOf(packages, k)][2]
                   /\ Cardinality(DictKeys(lowered)) < Len(packages)
                          => Indices("log.warning") # {}

====
